---- MODULE Spec2Model ----
(***************************************************************************)
(* mini-wallet: the wallet service (src/services/walletService.js), the   *)
(* User / Transaction models it drives and the statuses its controllers   *)
(* answer with.                                                           *)
(*                                                                         *)
(* Money in the store is counted in cents.  Amounts handed to the service *)
(* by a caller are counted in mills (1/1000), so that the normalisation   *)
(* Math.round(x * 100) / 100 has something to round; an amount can also   *)
(* be NaN.  Every `await` of the service is one step of a call; the code  *)
(* that runs between two awaits belongs to the step of the first one.     *)
(***************************************************************************)
EXTENDS Integers, Sequences, FiniteSets, TLC

\* ------------------------------------------------------------------ bounds
MaxBalance == 1        \* largest initial balance of an account, in cents
MaxAmount == 1         \* largest transfer amount a caller asks for, in cents
MaxRecords == 2        \* most records the ledger holds before the reads start

\* ------------------------------------------------------- values and inputs
Calls == {"c1", "c2"}                 \* requests the server handles at once
\* requests are numbered in the order they arrive
Earlier(c) == IF c = "c2" THEN {"c1"} ELSE {}
ObjectIds == {"a", "b", "c", "d"}     \* object ids the store can hold
InitialUsers == {"a", "b"}            \* accounts that exist from the start
\* the (sender, recipient) identifier strings a caller sends: "A" is the id
\* of account a written in upper-case hex digits, "c" a well-formed id that
\* no account has at the start, "zz" a malformed id
TransferInputs ==
  {<<"a", "b">>, <<"b", "a">>, <<"a", "A">>, <<"a", "c">>, <<"c", "a">>,
   <<"a", "a">>, <<"c", "c">>, <<"zz", "a">>, <<"a", "zz">>}
Topologies == {"Single", "ReplicaSetWithPrimary"}

NaN == [nan |-> TRUE, v |-> 0]
Num(m) == [nan |-> FALSE, v |-> m]

\* amounts in mills: NaN, negative, zero, below half a cent, and values just
\* below a whole number of cents
AmountInputs ==
  {NaN, Num(-10), Num(0), Num(4)} \cup {Num(10 * k - 4) : k \in 1..MaxAmount}

NoUser == [found |-> FALSE, balance |-> 0]
NoArgs == [op |-> "none", from |-> "zz", to |-> "zz", amount |-> Num(0),
           description |-> 0, email |-> "", initialBalance |-> Num(0),
           userId |-> "zz", limit |-> << >>]
NoLoc == [mode |-> "none", amt |-> Num(0), fromUser |-> NoUser,
          toUser |-> NoUser, err |-> "none", committed |-> FALSE,
          balance |-> Num(0)]
NoResponse == [balance |-> 0, records |-> << >>, users |-> << >>]
NoTxn == [open |-> FALSE, snap |-> << >>, hasSnap |-> FALSE,
          writes |-> << >>, rec |-> FALSE, dirty |-> {}]

\* error messages
ErrBadSender == "Invalid sender user ID format"
ErrBadRecipient == "Invalid recipient user ID format"
ErrSelf == "Cannot transfer money to yourself"
ErrAmount == "Transfer amount must be greater than 0"
ErrNoSender == "Sender user not found"
ErrNoRecipient == "Recipient user not found"
ErrInsufficient == "Insufficient balance"
ErrCast == "CastError"
ErrWriteConflict == "WriteConflict"
ErrInfra == "InfrastructureFailure"
ErrAbortAfterCommit == "Cannot call abortTransaction after calling commitTransaction"
ErrBadUser == "Invalid user ID format"
ErrNoUser == "User not found"
ErrExists == "User with this email already exists"
ErrDuplicateKey == "E11000 duplicate key error"
ErrValidation == "ValidationError"

\* maxlength of the description path of a Transaction
MaxDescriptionLength == 500

\* descriptions a caller sends, as their length after trim: none, and one
\* character more than the schema takes
DescriptionInputs == {0, MaxDescriptionLength + 1}

\* the default of the limit parameter of getTransactionHistory
DefaultLimit == 10

\* parseFloat(process.env.INITIAL_BALANCE || 100), in cents
DefaultBalance == 10000

\* createAccount inputs: e-mail addresses as typed ("nx" is no address),
\* initial balances in mills (Null when the caller gives none)
Null == [nan |-> TRUE, v |-> -1]
EmailInputs == {"a@x", "A@X", "n@x", "nx"}
InitialBalanceInputs == {Null, Num(-10), Num(-4), Num(10)}

VARIABLES
  topology,   \* client.topology.description.type
  users,      \* the User collection: object id -> [balance], committed state
  ledger,     \* the Transaction collection, in order of insertion
  pc,         \* per call: the await it is at
  args,       \* per call: the operation and its arguments
  loc,        \* per call: its local variables, gone when it returns
  txn,        \* per call: the session's open transaction
  result,     \* per call: "none", "ok" or the message of the error thrown
  opening,    \* history: the balance each account was created with
  response,   \* per call: what a read returned
  session     \* per call: the session it started: "none", "active", "ended"

vars ==
  <<topology, users, ledger, pc, args, loc, txn, result, opening, response,
    session>>

\* ------------------------------------------------------------ pure helpers

\* mongoose.Types.ObjectId.isValid on a string: 24 hex digits, either case
isValid(id) == id \in {"a", "A", "b", "c", "d"}

\* String.prototype.toString
toString(id) == id

\* the ObjectId a valid string is cast to: hex digits read case-insensitively
castObjectId(id) == IF id = "A" THEN "a" ELSE id

\* Math.round(x * 100) / 100 on an amount in mills, result in cents.
\* Math.round rounds to the nearest integer, halves towards +infinity.
Round2(x) == IF x.nan THEN NaN ELSE Num((x.v + 5) \div 10)

\* amount <= 0 (false when amount is NaN)
LeqZero(x) == ~x.nan /\ x.v <= 0

\* balance < transferAmount (false when transferAmount is NaN)
LessThan(balance, x) == ~x.nan /\ balance < x.v

\* supportsTransactions
supportsTransactions == topology # "Single"

\* String.prototype.toLowerCase / trim, the setters of the email path
lowercase(e) == IF e = "A@X" THEN "a@x" ELSE e


Neg(x) == IF x.nan THEN NaN ELSE Num(-(x.v))

\* the documents a call's reads see: a session's transaction reads its
\* snapshot overlaid with its own writes, every other read the committed store
View(c) ==
  IF txn[c].open /\ txn[c].hasSnap
    THEN [id \in DOMAIN txn[c].snap |->
            IF id \in DOMAIN txn[c].writes
              THEN [txn[c].snap[id] EXCEPT !.balance = txn[c].writes[id]]
              ELSE txn[c].snap[id]]
    ELSE users

\* User.findById
findById(docs, id) ==
  IF id \in DOMAIN docs
    THEN [found |-> TRUE, balance |-> docs[id].balance]
    ELSE NoUser

\* updateBalance without the balance condition in the query of a debit
updateBalance_noFloor(doc, delta) ==
  IF delta.nan
    THEN [ok |-> FALSE, err |-> ErrCast, balance |-> 0]
  ELSE IF ~doc.found
    THEN [ok |-> FALSE, err |-> ErrInsufficient, balance |-> 0]
  ELSE [ok |-> TRUE, err |-> "none", balance |-> doc.balance + delta.v]

\* updateBalance with a sum that comes out one cent too high
updateBalance_drift(doc, delta) ==
  IF delta.nan
    THEN [ok |-> FALSE, err |-> ErrCast, balance |-> 0]
  ELSE IF ~doc.found
    THEN [ok |-> FALSE, err |-> ErrInsufficient, balance |-> 0]
  ELSE IF delta.v < 0 /\ ~(doc.balance >= -(delta.v))
    THEN [ok |-> FALSE, err |-> ErrInsufficient, balance |-> 0]
  ELSE [ok |-> TRUE, err |-> "none", balance |-> doc.balance + delta.v + 1]

\* User.updateBalance on the document the query runs against: the outcome of
\* findOneAndUpdate({_id, balance: {$gte: |delta|}}, {$inc: {balance: delta}}).
\* delta is in cents already, so rounding it to cents again leaves it as is;
\* a NaN delta is refused when the update is cast to the schema.
updateBalance(doc, delta) ==
  IF delta.nan
    THEN [ok |-> FALSE, err |-> ErrCast, balance |-> 0]
  ELSE IF ~doc.found
    THEN [ok |-> FALSE, err |-> ErrInsufficient, balance |-> 0]
  ELSE IF delta.v < 0 /\ ~(doc.balance >= -(delta.v))
    THEN [ok |-> FALSE, err |-> ErrInsufficient, balance |-> 0]
  ELSE [ok |-> TRUE, err |-> "none", balance |-> doc.balance + delta.v]

\* the checks of transferMoney before its first await, in the code's order
transferValidation(fromUserId, toUserId, amount) ==
  IF ~isValid(fromUserId) THEN ErrBadSender
  ELSE IF ~isValid(toUserId) THEN ErrBadRecipient
  ELSE IF toString(fromUserId) = toString(toUserId) THEN ErrSelf
  ELSE IF LeqZero(amount) THEN ErrAmount
  ELSE "none"

\* transferPrecheck without the balance check
transferPrecheck_noBalance(fromUser, toUser, transferAmount) ==
  IF ~fromUser.found THEN ErrNoSender
  ELSE IF ~toUser.found THEN ErrNoRecipient
  ELSE "none"

\* the checks between the two findById calls and the debit
transferPrecheck(fromUser, toUser, transferAmount) ==
  IF ~fromUser.found THEN ErrNoSender
  ELSE IF ~toUser.found THEN ErrNoRecipient
  ELSE IF LessThan(fromUser.balance, transferAmount) THEN ErrInsufficient
  ELSE "none"

\* another session's open transaction has written the document
LockedByOther(c, id) ==
  \E d \in Calls \ {c} : txn[d].open /\ id \in DOMAIN txn[d].writes

\* WriteConflict with a store that refuses a write when any document has
\* changed after the snapshot or any is held by another open transaction
WriteConflict_anyDocument(c, id) ==
  \/ txn[c].dirty # {}
  \/ \E d \in Calls \ {c} : txn[d].open /\ DOMAIN txn[d].writes # {}

\* a write of this transaction to id is refused by the store: the document
\* changed after the snapshot, or another open transaction holds it
WriteConflict(c, id) == id \in txn[c].dirty \/ LockedByOther(c, id)

\* the open transactions after documents ids were changed in the committed
\* store by call c: every other snapshot is now stale for them
MarkDirty(t, c, ids) ==
  [d \in Calls |->
     IF d # c /\ t[d].open /\ t[d].hasSnap
       THEN [t[d] EXCEPT !.dirty = @ \cup ids]
       ELSE t[d]]

\* throw err out of a transfer: the atomic-ops path rethrows it to the
\* caller, the transaction path goes through session.abortTransaction()
Raise(c, newloc, err) ==
  IF newloc.mode = "txn"
    THEN /\ pc' = [pc EXCEPT ![c] = "abort"]
         /\ loc' = [loc EXCEPT ![c] = [newloc EXCEPT !.err = err]]
         /\ UNCHANGED result
    ELSE /\ pc' = [pc EXCEPT ![c] = "done"]
         /\ loc' = [loc EXCEPT ![c] = NoLoc]
         /\ result' = [result EXCEPT ![c] = err]

RECURSIVE Reverse(_)
\* sort({ createdAt: -1 }) on records held in the order they were created
Reverse(q) == IF q = << >> THEN << >> ELSE Append(Reverse(Tail(q)), Head(q))

\* cursor.limit(n): the first n documents; a limit of 0 is no limit and a
\* negative limit counts as its absolute value
Limit(q, n) ==
  LET k == IF n < 0 THEN -n ELSE n
  IN IF k = 0 \/ Len(q) <= k THEN q ELSE SubSeq(q, 1, k)

\* getTransactionHistory(userId, limit) on the records led: the records
\* with the user as sender or recipient, newest first, cut by limit
getTransactionHistory(led, userId, limit) ==
  LET involves(t) == \/ t.fromUserId = castObjectId(userId)
                     \/ t.toUserId = castObjectId(userId)
  IN Limit(Reverse(SelectSeq(led, involves)), limit)

\* --------------------------------------------------------------------- Init
Init ==
  /\ topology \in Topologies
  /\ \E ba \in 0..MaxBalance, bb \in 0..MaxBalance :
       users = [id \in InitialUsers |->
                  IF id = "a" THEN [email |-> "a@x", balance |-> ba]
                              ELSE [email |-> "b@x", balance |-> bb]]
  /\ opening = [id \in DOMAIN users |-> users[id].balance]
  /\ ledger = << >>
  /\ pc = [c \in Calls |-> "idle"]
  /\ args = [c \in Calls |-> NoArgs]
  /\ loc = [c \in Calls |-> NoLoc]
  /\ txn = [c \in Calls |-> NoTxn]
  /\ result = [c \in Calls |-> "none"]
  /\ response = [c \in Calls |-> NoResponse]
  /\ session = [c \in Calls |-> "none"]

\* ------------------------------------------------------------ transferMoney
TransferMoney(c, fromUserId, toUserId, amount, description) ==
  /\ pc[c] = "idle"
  /\ \A d \in Earlier(c) : pc[d] # "idle"
  /\ args' = [args EXCEPT ![c] = [NoArgs EXCEPT !.op = "transfer",
                !.from = fromUserId, !.to = toUserId, !.amount = amount,
                !.description = description]]
  /\ LET err == transferValidation(fromUserId, toUserId, amount)
         mode == IF supportsTransactions THEN "txn" ELSE "atomic"
     IN IF err # "none"
          THEN /\ pc' = [pc EXCEPT ![c] = "done"]
               /\ result' = [result EXCEPT ![c] = err]
               /\ UNCHANGED <<loc, txn>>
          ELSE /\ pc' = [pc EXCEPT ![c] = "findFrom"]
               /\ loc' = [loc EXCEPT ![c] = [NoLoc EXCEPT !.mode = mode,
                                              !.amt = Round2(amount)]]
               /\ txn' = [txn EXCEPT ![c] =
                            IF mode = "txn" THEN [NoTxn EXCEPT !.open = TRUE]
                                            ELSE NoTxn]
               /\ UNCHANGED result
  /\ UNCHANGED <<topology, users, ledger, opening, response>>
  /\ session' = [session EXCEPT ![c] =
                  IF /\ transferValidation(fromUserId, toUserId, amount) = "none"
                     /\ supportsTransactions
                    THEN "active" ELSE @]

\* const fromUser = await User.findById(fromUserId)[.session(session)]
FindFrom(c) ==
  /\ pc[c] = "findFrom"
  /\ txn' = [txn EXCEPT ![c] =
               IF @.open /\ ~@.hasSnap
                 THEN [@ EXCEPT !.snap = users, !.hasSnap = TRUE]
                 ELSE @]
  /\ LET docs == IF txn[c].open /\ ~txn[c].hasSnap THEN users ELSE View(c)
     IN loc' = [loc EXCEPT ![c].fromUser =
                  findById(docs, castObjectId(args[c].from))]
  /\ pc' = [pc EXCEPT ![c] = "findTo"]
  /\ UNCHANGED <<topology, users, ledger, args, result, opening, response>>
  /\ UNCHANGED session

\* const toUser = await User.findById(toUserId)[.session(session)], then the
\* existence and balance checks
FindTo(c) ==
  /\ pc[c] = "findTo"
  /\ LET toUser == findById(View(c), castObjectId(args[c].to))
         newloc == [loc[c] EXCEPT !.toUser = toUser]
         err == transferPrecheck(loc[c].fromUser, toUser, loc[c].amt)
     IN IF err # "none"
          THEN Raise(c, newloc, err)
          ELSE /\ pc' = [pc EXCEPT ![c] = "debit"]
               /\ loc' = [loc EXCEPT ![c] = newloc]
               /\ UNCHANGED result
  /\ UNCHANGED <<topology, users, ledger, args, txn, opening, response>>
  /\ UNCHANGED session

\* Adjust with the session left out of the update: the write goes to the
\* committed document at once
Adjust_noSession(c, id, delta, next) ==
  LET r == updateBalance(findById(View(c), id), delta)
  IN IF ~r.ok
       THEN /\ Raise(c, loc[c], r.err)
            /\ UNCHANGED <<users, txn>>
     ELSE /\ pc' = [pc EXCEPT ![c] = next]
          /\ UNCHANGED <<loc, result>>
          /\ users' = [users EXCEPT ![id].balance = r.balance]
          /\ txn' = MarkDirty(txn, c, {id})

\* Adjust with a store that accepts a transaction's write to a document
\* changed since its snapshot: the balance written is the one computed from
\* the earlier read
Adjust_staleWrite(c, id, delta, next) ==
  LET r == updateBalance(findById(View(c), id), delta)
  IN IF ~r.ok
       THEN /\ Raise(c, loc[c], r.err)
            /\ UNCHANGED <<users, txn>>
     ELSE /\ pc' = [pc EXCEPT ![c] = next]
          /\ UNCHANGED <<loc, result>>
          /\ IF loc[c].mode = "txn"
               THEN /\ txn' = [txn EXCEPT ![c].writes =
                                 (id :> r.balance) @@ @]
                    /\ UNCHANGED users
               ELSE /\ users' = [users EXCEPT ![id].balance = r.balance]
                    /\ txn' = MarkDirty(txn, c, {id})

\* await User.updateBalance(id, delta, session) followed by a move to pc next.
\* Without a session the update is one atomic step on the committed document.
\* With a session the query runs on the transaction's view; a matched document
\* that the store cannot write for this snapshot ends the call with the
\* store's write-conflict error, otherwise the write stays in the transaction.
Adjust(c, id, delta, next) ==
  LET r == updateBalance(findById(View(c), id), delta)
  IN IF ~r.ok
       THEN /\ Raise(c, loc[c], r.err)
            /\ UNCHANGED <<users, txn>>
     ELSE IF loc[c].mode = "txn" /\ WriteConflict(c, id)
       THEN /\ Raise(c, loc[c], ErrWriteConflict)
            /\ UNCHANGED <<users, txn>>
     ELSE /\ pc' = [pc EXCEPT ![c] = next]
          /\ UNCHANGED <<loc, result>>
          /\ IF loc[c].mode = "txn"
               THEN /\ txn' = [txn EXCEPT ![c].writes =
                                 (id :> r.balance) @@ @]
                    /\ UNCHANGED users
               ELSE /\ users' = [users EXCEPT ![id].balance = r.balance]
                    /\ txn' = MarkDirty(txn, c, {id})

\* await User.updateBalance(fromUserId, -transferAmount, session)
Debit(c) ==
  /\ pc[c] = "debit"
  /\ Adjust(c, castObjectId(args[c].from), Neg(loc[c].amt), "credit")
  /\ UNCHANGED <<topology, ledger, args, opening, response>>
  /\ UNCHANGED session

\* await User.updateBalance(toUserId, transferAmount, session)
Credit(c) ==
  /\ pc[c] = "credit"
  /\ Adjust(c, castObjectId(args[c].to), loc[c].amt, "save")
  /\ UNCHANGED <<topology, ledger, args, opening, response>>
  /\ UNCHANGED session

\* NewTransaction with the amount as the caller gave it, not normalised
NewTransaction_rawAmount(c) ==
  [id |-> c,
   fromUserId |-> castObjectId(args[c].from),
   toUserId |-> castObjectId(args[c].to),
   amount |-> args[c].amount.v,
   status |-> "SUCCESS",
   description |-> args[c].description]

\* the document new Transaction({...}) builds
NewTransaction(c) ==
  [id |-> c,
   fromUserId |-> castObjectId(args[c].from),
   toUserId |-> castObjectId(args[c].to),
   amount |-> loc[c].amt.v,
   status |-> "SUCCESS",
   description |-> args[c].description]

\* the schema validation transaction.save() runs: amount has min 0.01,
\* description has maxlength 500
transactionValid(t) ==
  /\ t.amount >= 1
  /\ t.description <= MaxDescriptionLength

\* SaveTransaction with a save that outside a session writes over the last
\* record of the ledger
SaveTransaction_overwrite(c) ==
  /\ pc[c] = "save"
  /\ IF ~transactionValid(NewTransaction(c))
       THEN /\ Raise(c, loc[c], ErrValidation)
            /\ UNCHANGED <<ledger, txn>>
       ELSE /\ UNCHANGED <<loc, result>>
            /\ IF loc[c].mode = "txn"
                 THEN /\ txn' = [txn EXCEPT ![c].rec = TRUE]
                      /\ pc' = [pc EXCEPT ![c] = "commit"]
                      /\ UNCHANGED ledger
                 ELSE /\ ledger' =
                           IF ledger = << >>
                             THEN <<NewTransaction(c)>>
                             ELSE [ledger EXCEPT ![Len(ledger)] =
                                     NewTransaction(c)]
                      /\ pc' = [pc EXCEPT ![c] = "rereadFrom"]
                      /\ UNCHANGED txn
  /\ UNCHANGED <<topology, users, args, opening, response>>
  /\ UNCHANGED session

\* await transaction.save([{ session }])
SaveTransaction(c) ==
  /\ pc[c] = "save"
  /\ IF ~transactionValid(NewTransaction(c))
       THEN /\ Raise(c, loc[c], ErrValidation)
            /\ UNCHANGED <<ledger, txn>>
       ELSE /\ UNCHANGED <<loc, result>>
            /\ IF loc[c].mode = "txn"
                 THEN /\ txn' = [txn EXCEPT ![c].rec = TRUE]
                      /\ pc' = [pc EXCEPT ![c] = "commit"]
                      /\ UNCHANGED ledger
                 ELSE /\ ledger' = Append(ledger, NewTransaction(c))
                      /\ pc' = [pc EXCEPT ![c] = "rereadFrom"]
                      /\ UNCHANGED txn
  /\ UNCHANGED <<topology, users, args, opening, response>>
  /\ UNCHANGED session

\* await session.commitTransaction(): the writes and the record of the
\* transaction reach the committed store in one step
CommitTransaction(c) ==
  /\ pc[c] = "commit"
  /\ users' = [id \in DOMAIN users |->
                 IF id \in DOMAIN txn[c].writes
                   THEN [users[id] EXCEPT !.balance = txn[c].writes[id]]
                   ELSE users[id]]
  /\ ledger' = IF txn[c].rec THEN Append(ledger, NewTransaction(c)) ELSE ledger
  /\ txn' = [MarkDirty(txn, c, DOMAIN txn[c].writes) EXCEPT ![c] = NoTxn]
  /\ loc' = [loc EXCEPT ![c].committed = TRUE]
  /\ pc' = [pc EXCEPT ![c] = "rereadFrom"]
  /\ UNCHANGED <<topology, args, result, opening, response>>
  /\ UNCHANGED session

\* const updatedFromUser = await User.findById(fromUserId); what it reads
\* goes into the response only
RereadFrom(c) ==
  /\ pc[c] = "rereadFrom"
  /\ pc' = [pc EXCEPT ![c] = "rereadTo"]
  /\ UNCHANGED <<topology, users, ledger, args, loc, txn, result, opening,
                 response>>
  /\ UNCHANGED session

\* const updatedToUser = await User.findById(toUserId); return {...}
RereadTo(c) ==
  /\ pc[c] = "rereadTo"
  /\ pc' = [pc EXCEPT ![c] = "done"]
  /\ result' = [result EXCEPT ![c] = "ok"]
  /\ loc' = [loc EXCEPT ![c] = NoLoc]
  /\ UNCHANGED <<topology, users, ledger, args, txn, opening, response>>
  /\ session' = [session EXCEPT ![c] = IF @ = "active" THEN "ended" ELSE @]

\* AbortTransaction without the finally block: an abort that throws leaves
\* the session as it is
AbortTransaction_noFinally(c) ==
  /\ pc[c] = "abort"
  /\ txn' = [txn EXCEPT ![c] = NoTxn]
  /\ result' = [result EXCEPT ![c] =
                  IF loc[c].committed THEN ErrAbortAfterCommit ELSE loc[c].err]
  /\ pc' = [pc EXCEPT ![c] = "done"]
  /\ loc' = [loc EXCEPT ![c] = NoLoc]
  /\ UNCHANGED <<topology, users, ledger, args, opening, response>>
  /\ session' = [session EXCEPT ![c] =
                   IF @ = "active" /\ ~loc[c].committed THEN "ended" ELSE @]

\* catch (error) { await session.abortTransaction(); throw error }: the
\* transaction's writes are dropped; once commitTransaction has been called
\* the driver refuses the abort, and that refusal is what the caller gets
AbortTransaction(c) ==
  /\ pc[c] = "abort"
  /\ txn' = [txn EXCEPT ![c] = NoTxn]
  /\ result' = [result EXCEPT ![c] =
                  IF loc[c].committed THEN ErrAbortAfterCommit ELSE loc[c].err]
  /\ pc' = [pc EXCEPT ![c] = "done"]
  /\ loc' = [loc EXCEPT ![c] = NoLoc]
  /\ UNCHANGED <<topology, users, ledger, args, opening, response>>
  /\ session' = [session EXCEPT ![c] = IF @ = "active" THEN "ended" ELSE @]

\* a store call of a transfer fails for a reason of the infrastructure
\* (connection lost, server abort) without having taken effect
StoreFailure(c) ==
  /\ pc[c] \in {"findFrom", "findTo", "debit", "credit", "save", "commit",
                "rereadFrom", "rereadTo"}
  /\ Raise(c, [loc[c] EXCEPT !.committed = @ \/ pc[c] = "commit"], ErrInfra)
  /\ txn' = IF pc[c] = "commit" THEN [txn EXCEPT ![c] = NoTxn] ELSE txn
  /\ UNCHANGED <<topology, users, ledger, args, opening, response>>
  /\ UNCHANGED session


\* ------------------------------------------------------------ createAccount

\* object ids not yet used by a document
FreshIds == ObjectIds \ DOMAIN users

\* createAccount calls that have not finished
CreatesInFlight == {d \in Calls : pc[d] \in {"findOne", "saveUser"}}

\* the balance new User({..., balance}) holds: the argument, or the
\* configured default when it is null, after the setter of the balance path
initialUserBalance(initialBalance) ==
  IF initialBalance = Null THEN Num(DefaultBalance) ELSE Round2(initialBalance)

\* some account has this normalised e-mail address
emailTaken(docs, email) ==
  \E id \in DOMAIN docs : docs[id].email = lowercase(email)

\* createAccount(name, email, initialBalance) up to its first await
CreateAccount(c, email, initialBalance) ==
  /\ pc[c] = "idle"
  /\ \A d \in Earlier(c) : pc[d] # "idle"
  /\ Cardinality(CreatesInFlight) < Cardinality(FreshIds)
  /\ args' = [args EXCEPT ![c] = [NoArgs EXCEPT !.op = "create",
                !.email = email, !.initialBalance = initialBalance]]
  /\ pc' = [pc EXCEPT ![c] = "findOne"]
  /\ UNCHANGED <<topology, users, ledger, loc, txn, result, opening, response>>
  /\ UNCHANGED session

\* const existingUser = await User.findOne({ email }), then new User({...})
FindOne(c) ==
  /\ pc[c] = "findOne"
  /\ IF emailTaken(users, args[c].email)
       THEN /\ pc' = [pc EXCEPT ![c] = "done"]
            /\ result' = [result EXCEPT ![c] = ErrExists]
            /\ UNCHANGED loc
       ELSE /\ pc' = [pc EXCEPT ![c] = "saveUser"]
            /\ loc' = [loc EXCEPT ![c].balance =
                         initialUserBalance(args[c].initialBalance)]
            /\ UNCHANGED result
  /\ UNCHANGED <<topology, users, ledger, args, txn, opening, response>>
  /\ UNCHANGED session

\* the schema validation user.save() runs: email matches the address
\* pattern, balance has min 0
userValid(email, balance) == email # "nx" /\ balance.v >= 0

\* SaveUser with an insert that takes the id of an account that exists
SaveUser_reusesId(c) ==
  /\ pc[c] = "saveUser"
  /\ pc' = [pc EXCEPT ![c] = "done"]
  /\ IF ~userValid(args[c].email, loc[c].balance)
       THEN /\ result' = [result EXCEPT ![c] = ErrValidation]
            /\ UNCHANGED users
     ELSE IF emailTaken(users, args[c].email)
       THEN /\ result' = [result EXCEPT ![c] = ErrDuplicateKey]
            /\ UNCHANGED users
     ELSE /\ result' = [result EXCEPT ![c] = "ok"]
          /\ users' = (CHOOSE id \in DOMAIN users : TRUE) :>
                        [email |-> lowercase(args[c].email),
                         balance |-> loc[c].balance.v]
                      @@ users
  /\ opening' = [id \in DOMAIN users' |->
                   IF id \in DOMAIN users THEN opening[id]
                                           ELSE users'[id].balance]
  /\ loc' = [loc EXCEPT ![c] = NoLoc]
  /\ UNCHANGED <<topology, ledger, args, txn, response>>
  /\ UNCHANGED session

\* await user.save(): schema validation, then the insert under the unique
\* index on email
SaveUser(c) ==
  /\ pc[c] = "saveUser"
  /\ pc' = [pc EXCEPT ![c] = "done"]
  /\ IF ~userValid(args[c].email, loc[c].balance)
       THEN /\ result' = [result EXCEPT ![c] = ErrValidation]
            /\ UNCHANGED users
     ELSE IF emailTaken(users, args[c].email)
       THEN /\ result' = [result EXCEPT ![c] = ErrDuplicateKey]
            /\ UNCHANGED users
     ELSE /\ result' = [result EXCEPT ![c] = "ok"]
          /\ users' = (CHOOSE id \in FreshIds : TRUE) :>
                        [email |-> lowercase(args[c].email),
                         balance |-> loc[c].balance.v]
                      @@ users
  /\ opening' = [id \in DOMAIN users' |->
                   IF id \in DOMAIN users THEN opening[id]
                                           ELSE users'[id].balance]
  /\ loc' = [loc EXCEPT ![c] = NoLoc]
  /\ UNCHANGED <<topology, ledger, args, txn, response>>
  /\ UNCHANGED session

\* a store call of createAccount fails for a reason of the infrastructure
CreateFailure(c) ==
  /\ pc[c] \in {"findOne", "saveUser"}
  /\ pc' = [pc EXCEPT ![c] = "done"]
  /\ result' = [result EXCEPT ![c] = ErrInfra]
  /\ loc' = [loc EXCEPT ![c] = NoLoc]
  /\ UNCHANGED <<topology, users, ledger, args, txn, opening, response>>
  /\ UNCHANGED session

\* -------------------------------------------------------------------- reads

\* getBalance(userId) up to its await
GetBalance(c, userId) ==
  /\ pc[c] = "idle"
  /\ \A d \in Earlier(c) : pc[d] # "idle"
  /\ args' = [args EXCEPT ![c] = [NoArgs EXCEPT !.op = "balance",
                                                !.userId = userId]]
  /\ IF ~isValid(userId)
       THEN /\ pc' = [pc EXCEPT ![c] = "done"]
            /\ result' = [result EXCEPT ![c] = ErrBadUser]
       ELSE /\ pc' = [pc EXCEPT ![c] = "findUser"]
            /\ UNCHANGED result
  /\ UNCHANGED <<topology, users, ledger, loc, txn, opening, response>>
  /\ UNCHANGED session

\* FindUser answering with the balance the account was opened with
FindUser_opening(c) ==
  /\ pc[c] = "findUser"
  /\ pc' = [pc EXCEPT ![c] = "done"]
  /\ LET id == castObjectId(args[c].userId)
     IN IF id \notin DOMAIN users
          THEN /\ result' = [result EXCEPT ![c] = ErrNoUser]
               /\ UNCHANGED response
          ELSE /\ result' = [result EXCEPT ![c] = "ok"]
               /\ response' = [response EXCEPT ![c].balance = opening[id]]
  /\ UNCHANGED <<topology, users, ledger, args, loc, txn, opening>>
  /\ UNCHANGED session

\* const user = await User.findById(userId); return { ..., balance }
FindUser(c) ==
  /\ pc[c] = "findUser"
  /\ pc' = [pc EXCEPT ![c] = "done"]
  /\ LET user == findById(users, castObjectId(args[c].userId))
     IN IF ~user.found
          THEN /\ result' = [result EXCEPT ![c] = ErrNoUser]
               /\ UNCHANGED response
          ELSE /\ result' = [result EXCEPT ![c] = "ok"]
               /\ response' = [response EXCEPT ![c].balance = user.balance]
  /\ UNCHANGED <<topology, users, ledger, args, loc, txn, opening>>
  /\ UNCHANGED session

\* the limit parameter of getTransactionHistory: 10 when the caller gives none
limitOrDefault(limit) == IF limit = << >> THEN DefaultLimit ELSE limit[1]

\* getTransactionHistory(userId, limit) up to its await
GetTransactionHistory(c, userId, limit) ==
  /\ pc[c] = "idle"
  /\ \A d \in Earlier(c) : pc[d] # "idle"
  /\ args' = [args EXCEPT ![c] = [NoArgs EXCEPT !.op = "history",
                                                !.userId = userId,
                                                !.limit = limit]]
  /\ IF ~isValid(userId)
       THEN /\ pc' = [pc EXCEPT ![c] = "done"]
            /\ result' = [result EXCEPT ![c] = ErrBadUser]
       ELSE /\ pc' = [pc EXCEPT ![c] = "findRecords"]
            /\ UNCHANGED result
  /\ UNCHANGED <<topology, users, ledger, loc, txn, opening, response>>
  /\ UNCHANGED session

\* const transactions = await Transaction.find(...).sort(...).limit(limit);
\* return transactions.map(...)
FindRecords(c) ==
  /\ pc[c] = "findRecords"
  /\ pc' = [pc EXCEPT ![c] = "done"]
  /\ result' = [result EXCEPT ![c] = "ok"]
  /\ response' = [response EXCEPT ![c].records =
                    getTransactionHistory(ledger, args[c].userId,
                                          limitOrDefault(args[c].limit))]
  /\ UNCHANGED <<topology, users, ledger, args, loc, txn, opening>>
  /\ UNCHANGED session

\* getAllUsers() up to its await
GetAllUsers(c) ==
  /\ pc[c] = "idle"
  /\ \A d \in Earlier(c) : pc[d] # "idle"
  /\ args' = [args EXCEPT ![c] = [NoArgs EXCEPT !.op = "users"]]
  /\ pc' = [pc EXCEPT ![c] = "findUsers"]
  /\ UNCHANGED <<topology, users, ledger, loc, txn, result, opening, response>>
  /\ UNCHANGED session

\* const users = await User.find().select('-__v'); return users.map(...):
\* the query has no session and reads the committed documents
FindUsers(c) ==
  /\ pc[c] = "findUsers"
  /\ pc' = [pc EXCEPT ![c] = "done"]
  /\ result' = [result EXCEPT ![c] = "ok"]
  /\ response' = [response EXCEPT ![c].users =
                    [id \in DOMAIN users |->
                       [email |-> users[id].email,
                        balance |-> users[id].balance]]]
  /\ UNCHANGED <<topology, users, ledger, args, loc, txn, opening>>
  /\ UNCHANGED session

\* the store call of a read fails for a reason of the infrastructure
ReadFailure(c) ==
  /\ pc[c] \in {"findUser", "findRecords", "findUsers"}
  /\ pc' = [pc EXCEPT ![c] = "done"]
  /\ result' = [result EXCEPT ![c] = ErrInfra]
  /\ UNCHANGED <<topology, users, ledger, args, loc, txn, opening, response>>
  /\ UNCHANGED session

\* ------------------------------------------------------------ HTTP statuses

\* error.message.includes(...) of the controllers, on the messages above
includesInsufficient(msg) == msg = ErrInsufficient
includesNotFound(msg) == msg \in {ErrNoSender, ErrNoRecipient, ErrNoUser}
includesInvalid(msg) == msg \in {ErrBadSender, ErrBadRecipient, ErrBadUser}
includesSelf(msg) == msg = ErrSelf
includesExists(msg) == msg = ErrExists

\* the status exports.transferMoney answers with, the required fields being
\* there: a, the arguments of the request; res, what the service returns to
\* a request the controller lets through
transferMoneyStatus(a, res) ==
  IF a.amount.nan \/ a.amount.v <= 0 THEN 400
  ELSE IF res = "ok" THEN 200
  ELSE IF includesInsufficient(res) THEN 400
  ELSE IF includesNotFound(res) \/ includesInvalid(res) THEN 404
  ELSE IF includesSelf(res) THEN 400
  ELSE 500

\* the status exports.createAccount answers with, name and email being there
createAccountStatus(res) ==
  IF res = "ok" THEN 201
  ELSE IF includesExists(res) THEN 409
  ELSE 500

\* ------------------------------------------------------------ specification

\* the steps of the service when every store call answers
Step(c) ==
  \/ \E ft \in TransferInputs, m \in AmountInputs, d \in DescriptionInputs :
       TransferMoney(c, ft[1], ft[2], m, d)
  \/ FindFrom(c)
  \/ FindTo(c)
  \/ Debit(c)
  \/ Credit(c)
  \/ SaveTransaction(c)
  \/ CommitTransaction(c)
  \/ RereadFrom(c)
  \/ RereadTo(c)
  \/ AbortTransaction(c)
  \/ \E e \in EmailInputs, b \in InitialBalanceInputs : CreateAccount(c, e, b)
  \/ FindOne(c)
  \/ SaveUser(c)

\* the steps in which a store call fails
Fault(c) ==
  \/ StoreFailure(c)
  \/ CreateFailure(c)

Next == \E c \in Calls : Step(c) \/ Fault(c)

Spec == Init /\ [][Next]_vars

\* the service on a store that never fails
NextNoFault == \E c \in Calls : Step(c)

SpecNoFault == Init /\ [][NextNoFault]_vars

TypeOK ==
  /\ topology \in Topologies
  /\ DOMAIN users \subseteq ObjectIds
  /\ \A c \in Calls : pc[c] \in {"idle", "findFrom", "findTo", "debit",
       "credit", "save", "commit", "rereadFrom", "rereadTo", "abort",
       "findOne", "saveUser", "findUser", "findRecords", "findUsers",
       "done"}
  /\ \A c \in Calls : session[c] \in {"none", "active", "ended"}


\* ------------------------------------------------------------------ helpers
\* of the properties

RECURSIVE SumBalances(_, _)
SumBalances(docs, ids) ==
  IF ids = {} THEN 0
  ELSE LET id == CHOOSE x \in ids : TRUE
       IN docs[id].balance + SumBalances(docs, ids \ {id})

RECURSIVE SumOpening(_)
SumOpening(ids) ==
  IF ids = {} THEN 0
  ELSE LET id == CHOOSE x \in ids : TRUE
       IN opening[id] + SumOpening(ids \ {id})

Quiescent == \A c \in Calls : pc[c] \in {"idle", "done"}

IsTransfer(c) == args[c].op = "transfer"
Sender(c) == castObjectId(args[c].from)
Recipient(c) == castObjectId(args[c].to)

\* ------------------------------------------------------------------- claims

\* C1: in every reachable state, under any interleaving of createAccount and
\* transferMoney calls and in both execution modes, the balance of every
\* account is >= 0.
C1_BalanceNonNegative ==
  \A id \in DOMAIN users : users[id].balance >= 0

\* a transfer has succeeded and has taken its sender's balance down to 0
C1_Witness ==
  \E c \in Calls :
    /\ IsTransfer(c) /\ result[c] = "ok"
    /\ opening[Sender(c)] > 0
    /\ users[Sender(c)].balance = 0


\* the normalised amount of a transfer call, in cents
Amount(c) == Round2(args[c].amount)

\* call c is the only call made so far, and it has returned
RanAlone(c) == pc[c] = "done" /\ \A d \in Calls \ {c} : pc[d] = "idle"

\* a transfer call whose identifiers are well-formed, given as different
\* strings, and resolve to accounts that exist
Addressable(c) ==
  /\ IsTransfer(c)
  /\ isValid(args[c].from) /\ isValid(args[c].to)
  /\ Sender(c) \in DOMAIN users /\ Recipient(c) \in DOMAIN users

RECURSIVE SumAmounts(_, _, _)
\* the sum of the amounts of the ledger records 1..n whose field f is id
SumAmounts(f, id, n) ==
  IF n = 0 THEN 0
  ELSE (IF ledger[n][f] = id THEN ledger[n].amount ELSE 0)
         + SumAmounts(f, id, n - 1)

Credits(id) == SumAmounts("toUserId", id, Len(ledger))
Debits(id) == SumAmounts("fromUserId", id, Len(ledger))
HasRecord(c) == \E i \in DOMAIN ledger : ledger[i].id = c

\* C2: a debit and its paired credit both apply or neither does: once every
\* transferMoney call has finished, with success or with any failure, a
\* failure of the store at any single step included, the sum of all balances
\* is the sum of what the accounts were opened with (both modes).
C2_SumConserved ==
  Quiescent =>
    SumBalances(users, DOMAIN users) = SumOpening(DOMAIN users)

\* C3: a transferMoney call that succeeds with normalised amount a leaves the
\* sender with its balance before the call minus a and the recipient with
\* its balance before the call plus a, the sum of the two unchanged; stated
\* for a call that runs alone, whose balances before are the opening ones.
C3_TransferEffect ==
  \A c \in Calls :
    (RanAlone(c) /\ IsTransfer(c) /\ result[c] = "ok") =>
      /\ users[Sender(c)].balance = opening[Sender(c)] - Amount(c).v
      /\ users[Recipient(c)].balance = opening[Recipient(c)] + Amount(c).v

\* the two transfers of the scenario of C4: the same sender, the same
\* positive amount, recipients that exist and are not the sender
SameDebit(c, d) ==
  /\ Addressable(c) /\ Addressable(d)
  /\ Sender(c) = Sender(d)
  /\ Recipient(c) # Sender(c) /\ Recipient(d) # Sender(d)
  /\ ~Amount(c).nan /\ Amount(c) = Amount(d) /\ Amount(c).v > 0

Succeeded(cs) == {c \in cs : result[c] = "ok"}

\* C4: N transfers of the same amount a against one sender with balance b,
\* N * a > b, under every interleaving: at most floor(b / a) succeed, every
\* other one fails with 'Insufficient balance', and the sender ends with
\* exactly b - successes * a.
C4_ConcurrentDebits ==
  \A c \in Calls, d \in Calls :
    (c # d /\ pc[c] = "done" /\ pc[d] = "done" /\ SameDebit(c, d)
       /\ 2 * Amount(c).v > opening[Sender(c)]) =>
      LET n == Cardinality(Succeeded({c, d}))
      IN /\ n <= opening[Sender(c)] \div Amount(c).v
         /\ \A e \in {c, d} \ Succeeded({c, d}) : result[e] = ErrInsufficient
         /\ users[Sender(c)].balance = opening[Sender(c)] - n * Amount(c).v

\* the balance check of a transfer sees less than the normalised amount
SeesTooLittle(c) ==
  /\ pc[c] = "findTo"
  /\ loc[c].fromUser.found
  /\ findById(View(c), Recipient(c)).found
  /\ LessThan(loc[c].fromUser.balance, loc[c].amt)

\* the step taken by call c throws 'Insufficient balance'
ThrowsInsufficient(c) ==
  \/ pc'[c] = "done" /\ result'[c] = ErrInsufficient
  \/ pc'[c] = "abort" /\ loc'[c].err = ErrInsufficient

\* C5: a transferMoney call between two existing accounts whose (normalised)
\* amount exceeds the sender's balance fails with 'Insufficient balance', leaves the balances of sender
\* and recipient unchanged and appends no record: the step that makes the
\* balance check throws at once and changes neither store, and a call that
\* ran alone against a balance below its amount ends that way.
C5_InsufficientRejected ==
  /\ [][\A c \in Calls :
          (SeesTooLittle(c) /\ pc'[c] # pc[c]) =>
            (ThrowsInsufficient(c) /\ users' = users /\ ledger' = ledger)
       ]_vars
  /\ [](\A c \in Calls :
          (RanAlone(c) /\ Addressable(c) /\ Sender(c) # Recipient(c)
             /\ ~Amount(c).nan /\ Amount(c).v > opening[Sender(c)]) =>
            /\ result[c] = ErrInsufficient
            /\ ledger = << >>
            /\ \A id \in DOMAIN users : users[id].balance = opening[id])

\* a transfer that asked for more than its sender holds has failed with
\* 'Insufficient balance'
C5_Witness ==
  \E c \in Calls :
    /\ RanAlone(c) /\ Addressable(c) /\ Sender(c) # Recipient(c)
    /\ ~Amount(c).nan /\ Amount(c).v > users[Sender(c)].balance
    /\ result[c] = ErrInsufficient

\* C6: a transferMoney call whose two identifiers denote the same account
\* fails with 'Cannot transfer money to yourself', for every pair of accepted
\* identifier values that denote the account.
C6_SelfTransferRejected ==
  \A c \in Calls :
    (pc[c] = "done" /\ IsTransfer(c)
       /\ isValid(args[c].from) /\ isValid(args[c].to)
       /\ Sender(c) = Recipient(c)) =>
      result[c] = ErrSelf

\* C7: every record of the ledger has a sender account different from its
\* recipient account.
C7_RecordPartiesDiffer ==
  \A i \in DOMAIN ledger : ledger[i].fromUserId # ledger[i].toUserId

\* C8: transferMoney called by the service's own caller with an amount that
\* is zero, negative or NaN (sender and recipient being two existing
\* accounts) fails with 'Transfer amount must be greater than 0', no balance
\* changed and no record written.
C8_InvalidAmountRejected ==
  \A c \in Calls :
    (pc[c] = "done" /\ Addressable(c) /\ Sender(c) # Recipient(c)
       /\ (args[c].amount.nan \/ args[c].amount.v <= 0)) =>
      /\ result[c] = ErrAmount
      /\ ~HasRecord(c)

C10_FallbackCompensates ==
  [][\A c \in Calls :
       (loc[c].mode = "atomic" /\ pc[c] = "credit" /\ pc'[c] = "done") =>
         users'[Sender(c)].balance = users[Sender(c)].balance + loc[c].amt.v
    ]_vars

\* ------------------------------------------------- one call after another

\* the store after balance bal was written to document id
withBalance(docs, id, bal) == [docs EXCEPT ![id].balance = bal]

\* transferMoney(a.from, a.to, a.amount, a.description) run from its first
\* line to its return or throw with no other call in between and every store
\* call answering, on the store docs / led, in execution mode mode: what the
\* caller gets and the store it leaves.  In mode "txn" the writes become the
\* store at the commit and are dropped by the abort; in mode "atomic" each
\* write is the store's at once and the catch block only rethrows.
sequentialTransfer(c, docs, led, a, mode) ==
  LET from == castObjectId(a.from)
      to == castObjectId(a.to)
      amt == Round2(a.amount)
      invalid == transferValidation(a.from, a.to, a.amount)
      refused == transferPrecheck(findById(docs, from), findById(docs, to), amt)
      debit == updateBalance(findById(docs, from), Neg(amt))
      docs1 == IF debit.ok THEN withBalance(docs, from, debit.balance) ELSE docs
      credit == updateBalance(findById(docs1, to), amt)
      docs2 == IF credit.ok THEN withBalance(docs1, to, credit.balance)
                            ELSE docs1
      rec == [id |-> c, fromUserId |-> from, toUserId |-> to,
              amount |-> amt.v, status |-> "SUCCESS",
              description |-> a.description]
      thrown(err, left) ==
        [result |-> err, ledger |-> led,
         users |-> IF mode = "txn" THEN docs ELSE left]
  IN IF invalid # "none" THEN thrown(invalid, docs)
     ELSE IF refused # "none" THEN thrown(refused, docs)
     ELSE IF ~debit.ok THEN thrown(debit.err, docs)
     ELSE IF ~credit.ok THEN thrown(credit.err, docs1)
     ELSE IF ~transactionValid(rec) THEN thrown(ErrValidation, docs2)
     ELSE [result |-> "ok", ledger |-> Append(led, rec), users |-> docs2]

\* the accounts as they were opened
OpeningUsers ==
  [id \in DOMAIN users |-> [users[id] EXCEPT !.balance = opening[id]]]

\* what call c returned and the store it left
Outcome(c) == [result |-> result[c], ledger |-> ledger, users |-> users]

\* the execution mode the call did not run in
OtherMode == IF supportsTransactions THEN "atomic" ELSE "txn"
ThisMode == IF supportsTransactions THEN "txn" ELSE "atomic"

\* a call run alone on a store that answers ends as its mode's sequential run
SequentialRunIsFaithful ==
  \A c \in Calls :
    (RanAlone(c) /\ IsTransfer(c)) =>
      Outcome(c) =
        sequentialTransfer(c, OpeningUsers, << >>, args[c], ThisMode)

\* C11: for calls executed one at a time with no infrastructure failure the
\* two execution modes give the same outcome and leave the same balances and
\* the same ledger records: a transferMoney call that ran alone in one mode
\* has returned what the other mode returns for the same arguments on the
\* same store, and has left the store the other mode leaves.
C11_ModesAgree ==
  \A c \in Calls :
    (RanAlone(c) /\ IsTransfer(c)) =>
      Outcome(c) =
        sequentialTransfer(c, OpeningUsers, << >>, args[c], OtherMode)

\* ------------------------------------------------------ the worked examples

\* the opening balances (sender a, recipient b) of the documented examples,
\* in cents: 100 and 50; 100.55 and 50.25
ExampleBalances == {<<10000, 5000>>, <<10055, 5025>>}

\* the amounts of the documented examples, in mills: 30 and 25.33
ExampleAmounts == {Num(30000), Num(25330)}

ExampleInit ==
  /\ topology \in Topologies
  /\ \E bal \in ExampleBalances :
       users = [id \in InitialUsers |->
                  IF id = "a" THEN [email |-> "a@x", balance |-> bal[1]]
                              ELSE [email |-> "b@x", balance |-> bal[2]]]
  /\ opening = [id \in DOMAIN users |-> users[id].balance]
  /\ ledger = << >>
  /\ pc = [c \in Calls |-> "idle"]
  /\ args = [c \in Calls |-> NoArgs]
  /\ loc = [c \in Calls |-> NoLoc]
  /\ txn = [c \in Calls |-> NoTxn]
  /\ result = [c \in Calls |-> "none"]
  /\ response = [c \in Calls |-> NoResponse]
  /\ session = [c \in Calls |-> "none"]

\* transfers of the example amounts, store failures included
ExampleNext ==
  \E c \in Calls :
    \/ \E ft \in TransferInputs, m \in ExampleAmounts, d \in DescriptionInputs :
         TransferMoney(c, ft[1], ft[2], m, d)
    \/ FindFrom(c)
    \/ FindTo(c)
    \/ Debit(c)
    \/ Credit(c)
    \/ SaveTransaction(c)
    \/ CommitTransaction(c)
    \/ RereadFrom(c)
    \/ RereadTo(c)
    \/ AbortTransaction(c)
    \/ StoreFailure(c)

SpecExample == ExampleInit /\ [][ExampleNext]_vars

\* the positions of the ledger that hold a record written by call c
RecordsOf(c) == {i \in DOMAIN ledger : ledger[i].id = c}

\* C12: every transferMoney call that has succeeded has appended exactly one
\* record, with status SUCCESS, the call's sender and recipient and the
\* normalised amount; and a transfer of 30 from a (100) to b (50) that ran
\* alone leaves a = 70, b = 80 and one SUCCESS record of amount 30 in the
\* history of a.
C12_OneSuccessRecord ==
  /\ \A c \in Calls :
       (IsTransfer(c) /\ result[c] = "ok") =>
         /\ Cardinality(RecordsOf(c)) = 1
         /\ \A i \in RecordsOf(c) :
              /\ ledger[i].status = "SUCCESS"
              /\ ledger[i].fromUserId = Sender(c)
              /\ ledger[i].toUserId = Recipient(c)
              /\ ledger[i].amount = Amount(c).v
  /\ \A c \in Calls :
       (RanAlone(c) /\ IsTransfer(c) /\ result[c] = "ok"
          /\ args[c].from = "a" /\ args[c].to = "b"
          /\ args[c].amount = Num(30000)
          /\ opening["a"] = 10000 /\ opening["b"] = 5000) =>
         /\ users["a"].balance = 7000 /\ users["b"].balance = 8000
         /\ Len(getTransactionHistory(ledger, "a", 10)) = 1
         /\ getTransactionHistory(ledger, "a", 10)[1].status = "SUCCESS"
         /\ getTransactionHistory(ledger, "a", 10)[1].amount = 3000

\* the transfer of 30 from a (100) to b (50) has succeeded
C12_Witness ==
  \E c \in Calls :
    /\ RanAlone(c) /\ result[c] = "ok"
    /\ args[c].from = "a" /\ args[c].to = "b" /\ args[c].amount = Num(30000)
    /\ opening["a"] = 10000 /\ opening["b"] = 5000
    /\ Len(ledger) = 1

\* ------------------------------------------------------------ createAccount

IsCreate(c) == args[c].op = "create"

\* the accounts whose e-mail address is the normalised form of email
AccountsWith(email) ==
  {id \in DOMAIN users : users[id].email = lowercase(email)}

\* C13: no two accounts have the same normalised e-mail address, and a
\* createAccount call with an acceptable balance that has finished without
\* creating an account, its normalised e-mail address being that of an
\* account, has failed with 'User with this email already exists'; under
\* every interleaving of createAccount calls.
C13_DuplicateEmail ==
  /\ \A c \in Calls : Cardinality(AccountsWith(args[c].email)) <= 1
  /\ \A c \in Calls :
       (pc[c] = "done" /\ IsCreate(c) /\ result[c] # "ok"
          /\ initialUserBalance(args[c].initialBalance).v >= 0
          /\ AccountsWith(args[c].email) # {}) =>
         result[c] = ErrExists

\* the initial balance of a createAccount call is given and below zero
NegativeInitialBalance(c) ==
  args[c].initialBalance # Null /\ args[c].initialBalance.v < 0

\* C14: a createAccount call that has succeeded has opened its account with
\* the default balance when no initial balance was given and with the given
\* (normalised) balance otherwise, never after a negative one; and a
\* createAccount call with a negative initial balance that ran alone has
\* failed and has created no account.
C14_InitialBalance ==
  /\ \A c \in Calls :
       (pc[c] = "done" /\ IsCreate(c) /\ result[c] = "ok") =>
         /\ ~NegativeInitialBalance(c)
         /\ \A id \in AccountsWith(args[c].email) :
              opening[id] = IF args[c].initialBalance = Null
                              THEN DefaultBalance
                              ELSE Round2(args[c].initialBalance).v
  /\ \A c \in Calls :
       (RanAlone(c) /\ IsCreate(c) /\ NegativeInitialBalance(c)) =>
         (result[c] # "ok" /\ DOMAIN users = InitialUsers)

\* -------------------------------------------------- reads of a used wallet

\* the accounts of the wallet the reads run on
ReadUsers == {"a", "b", "c"}

\* the (sender, recipient) pairs of the transfers made on it
ReadPairs == {<<"a", "b">>, <<"b", "a">>, <<"b", "c">>}

\* the user ids the reads ask for: "d" is well-formed and no account's
ReadIds == {"a", "A", "b", "d", "zz"}

\* the limits the reads ask for: none, 0, 1, -1
LimitInputs == {<< >>, <<0>>, <<1>>, <<-1>>}

\* the _id of the i-th record of the ledger
RecordId(i) == <<"t1", "t2", "t3", "t4">>[i]

\* the ledgers that up to MaxRecords successful transfers of 0.01 leave
PastLedgers ==
  UNION {{[i \in 1..n |->
             [id |-> RecordId(i), fromUserId |-> q[i][1],
              toUserId |-> q[i][2], amount |-> 1, status |-> "SUCCESS",
              description |-> 0]] : q \in [1..n -> ReadPairs]}
         : n \in 0..MaxRecords}

RECURSIVE Net(_, _)
\* what the records led have credited to account id less what they debited
Net(led, id) ==
  IF led = << >> THEN 0
  ELSE (IF Head(led).toUserId = id THEN Head(led).amount ELSE 0)
       - (IF Head(led).fromUserId = id THEN Head(led).amount ELSE 0)
       + Net(Tail(led), id)

\* three accounts opened with MaxRecords cents each, after the transfers of
\* one of the past ledgers
ReadInit ==
  /\ topology \in Topologies
  /\ ledger \in PastLedgers
  /\ opening = [id \in ReadUsers |-> MaxRecords]
  /\ users = [id \in ReadUsers |->
                [email |-> IF id = "a" THEN "a@x"
                           ELSE IF id = "b" THEN "b@x" ELSE "n@x",
                 balance |-> opening[id] + Net(ledger, id)]]
  /\ pc = [c \in Calls |-> "idle"]
  /\ args = [c \in Calls |-> NoArgs]
  /\ loc = [c \in Calls |-> NoLoc]
  /\ txn = [c \in Calls |-> NoTxn]
  /\ result = [c \in Calls |-> "none"]
  /\ response = [c \in Calls |-> NoResponse]
  /\ session = [c \in Calls |-> "none"]

\* reads and transfers of 0.01 on it, store failures of the reads included
ReadNext ==
  \E c \in Calls :
    \/ \E id \in ReadIds : GetBalance(c, id)
    \/ FindUser(c)
    \/ \E id \in ReadIds, n \in LimitInputs : GetTransactionHistory(c, id, n)
    \/ FindRecords(c)
    \/ ReadFailure(c)
    \/ \E ft \in ReadPairs : TransferMoney(c, ft[1], ft[2], Num(10), 0)
    \/ FindFrom(c)
    \/ FindTo(c)
    \/ Debit(c)
    \/ Credit(c)
    \/ SaveTransaction(c)
    \/ CommitTransaction(c)
    \/ RereadFrom(c)
    \/ RereadTo(c)
    \/ AbortTransaction(c)

SpecRead == ReadInit /\ [][ReadNext]_vars

IsGetBalance(c) == args[c].op = "balance"

\* call c takes a step of getBalance: its first line or its store call
GetBalanceStep(c) ==
  \/ pc[c] = "idle" /\ args'[c].op = "balance"
  \/ pc[c] = "findUser" /\ pc'[c] = "done"

\* C15: getBalance is a pure read: no step of it changes a balance or the
\* ledger, the balance it returns is the one the store holds for the
\* account, and two getBalance calls on one account with no transfer step
\* between them (both calls being reads, there is none) return the same
\* balance.
C15_GetBalancePure ==
  /\ [][\A c \in Calls :
          GetBalanceStep(c) =>
            /\ users' = users /\ ledger' = ledger
            /\ (result'[c] = "ok") =>
                 response'[c].balance =
                   users[castObjectId(args'[c].userId)].balance
       ]_vars
  /\ [](\A c \in Calls, d \in Calls :
          (IsGetBalance(c) /\ IsGetBalance(d)
             /\ result[c] = "ok" /\ result[d] = "ok"
             /\ castObjectId(args[c].userId) = castObjectId(args[d].userId))
            => response[c].balance = response[d].balance)

\* two getBalance calls on account a, which transfers have moved away from
\* its opening balance, have both returned
C15_Witness ==
  \E c \in Calls, d \in Calls :
    /\ c # d /\ IsGetBalance(c) /\ IsGetBalance(d)
    /\ result[c] = "ok" /\ result[d] = "ok"
    /\ args[c].userId = "a" /\ args[d].userId = "A"
    /\ users["a"].balance # opening["a"]
    /\ response[c].balance = users["a"].balance

\* ---------------------------------------------------------------- precision

\* the balance of account id changes in this step by what a transfer call
\* that takes the step debits or credits: its normalised amount, a whole
\* number of cents
MovedByTransfer(id) ==
  \E c \in Calls :
    /\ IsTransfer(c) /\ pc'[c] # pc[c] /\ ~Amount(c).nan
    /\ id \in {Sender(c), Recipient(c)}
    /\ \/ users'[id].balance = users[id].balance + Amount(c).v
       \/ users'[id].balance = users[id].balance - Amount(c).v

UnknownParty(c) ==
  /\ IsTransfer(c)
  /\ \/ ~isValid(args[c].from) \/ ~isValid(args[c].to)
     \/ Sender(c) \notin DOMAIN users \/ Recipient(c) \notin DOMAIN users

\* the errors of an identifier that is malformed or resolves to no account
IdentifierErrors == {ErrBadSender, ErrBadRecipient, ErrNoSender, ErrNoRecipient}

\* C17: a transferMoney call with a sender or recipient identifier that is
\* malformed or resolves to no account has failed with an invalid-identifier
\* or a not-found error ('Sender user not found', 'Recipient user not
\* found'), has written no record and, having run alone, has left every
\* balance as it was.
C17_UnknownPartyRejected ==
  \A c \in Calls :
    (pc[c] = "done" /\ UnknownParty(c)) =>
      /\ result[c] \in IdentifierErrors
      /\ ~HasRecord(c)
      /\ RanAlone(c) => \A id \in DOMAIN users : users[id].balance = opening[id]

\* ------------------------------------------------------------------ history

\* the positions of the ledger whose record has account id as a party
PositionsOf(id) ==
  {i \in DOMAIN ledger : ledger[i].fromUserId = id \/ ledger[i].toUserId = id}

\* the position of the k-th most recent record of account id
Recent(id, k) ==
  CHOOSE i \in PositionsOf(id) :
    Cardinality({j \in PositionsOf(id) : j > i}) = k - 1

Min(m, n) == IF m <= n THEN m ELSE n

\* C18: the step in which getTransactionHistory(account, limit) reads the
\* ledger, limit being a number of records (0 or more; 10 when none is
\* given), returns exactly the records that have the account as sender or
\* recipient, most recent first, cut to the limit most recent ones: as many
\* records as the smaller of the limit and the number of the account's
\* records, the k-th being the account's k-th most recent record.
C18_HistoryOfAccount ==
  [][\A c \in Calls :
       (pc[c] = "findRecords" /\ pc'[c] = "done" /\ result'[c] = "ok"
          /\ limitOrDefault(args[c].limit) >= 0) =>
         LET id == castObjectId(args[c].userId)
             n == limitOrDefault(args[c].limit)
             h == response'[c].records
         IN /\ Len(h) = Min(n, Cardinality(PositionsOf(id)))
            /\ \A k \in 1..Len(h) : h[k] = ledger[Recent(id, k)]
    ]_vars

\* ------------------------------------------------------------ HTTP statuses

\* the status the HTTP layer answers a finished call with
Status(c) ==
  IF IsTransfer(c) THEN transferMoneyStatus(args[c], result[c])
                   ELSE createAccountStatus(result[c])

\* the status documented for the way a finished call ended: 400 for invalid
\* input, insufficient balance and self-transfer, 404 for an unknown or
\* malformed user id, 409 for a duplicate e-mail address, 500 otherwise
Documented(c) ==
  IF IsTransfer(c)
    THEN IF args[c].amount.nan \/ args[c].amount.v <= 0 THEN 400
         ELSE IF result[c] = "ok" THEN 200
         ELSE IF result[c] \in {ErrInsufficient, ErrSelf, ErrValidation}
           THEN 400
         ELSE IF result[c] \in IdentifierErrors THEN 404
         ELSE 500
    ELSE IF result[c] = "ok" THEN 201
         ELSE IF result[c] = ErrValidation THEN 400
         ELSE IF result[c] \in {ErrExists, ErrDuplicateKey} THEN 409
         ELSE 500

\* C19: the HTTP layer answers every finished transferMoney and createAccount
\* request with the documented status: 400 for invalid input (amount, e-mail
\* address, initial balance, description), insufficient balance and
\* self-transfer, 404 for an unknown or malformed user id, 409 for a duplicate
\* e-mail address, and 500 only for a failure that is none of these.
C19_DocumentedStatus ==
  \A c \in Calls :
    (pc[c] = "done" /\ (IsTransfer(c) \/ IsCreate(c))) =>
      Status(c) = Documented(c)

\* ---------------------------------------------------------------- fail fast

\* C20: a transferMoney call that is rejected for a reason other than a
\* failure of the infrastructure (the store answers every call here), an
\* over-long description included, has changed no balance: having run alone
\* and failed, it leaves every balance as it was, in either execution mode.
C20_RejectedBeforeMutation ==
  \A c \in Calls :
    (RanAlone(c) /\ IsTransfer(c) /\ result[c] # "ok") =>
      \A id \in DOMAIN users : users[id].balance = opening[id]

\* ------------------------------------------------------------ normalisation

\* a transfer call between two accounts that exist from the start whose
\* amount is above zero and is normalised to 0.00
NormalisesToZero(c) ==
  /\ Addressable(c) /\ Sender(c) # Recipient(c)
  /\ Sender(c) \in InitialUsers /\ Recipient(c) \in InitialUsers
  /\ ~args[c].amount.nan /\ args[c].amount.v > 0
  /\ Amount(c).v = 0

\* C21: every record of the ledger has an amount above zero, a whole number
\* of cents; and a transferMoney call between two accounts with a positive
\* amount that is normalised to 0.00 has been rejected as an invalid amount
\* ('Transfer amount must be greater than 0'), has written no record and,
\* having run alone, has moved no money.
C21_NormalisedAmount ==
  /\ \A i \in DOMAIN ledger : ledger[i].amount \in Nat \ {0}
  /\ \A c \in Calls :
       (pc[c] = "done" /\ NormalisesToZero(c)) =>
         /\ result[c] = ErrAmount
         /\ ~HasRecord(c)
         /\ RanAlone(c) =>
              \A id \in DOMAIN users : users[id].balance = opening[id]

\* ------------------------------------------------------------ the lost race

\* call c has passed its balance check and is about to debit a sender whose
\* balance another transfer has meanwhile taken below the amount
OvertakenDebit(c) ==
  /\ pc[c] = "debit"
  /\ ~loc[c].amt.nan
  /\ loc[c].fromUser.balance >= loc[c].amt.v
  /\ users[Sender(c)].balance < loc[c].amt.v

\* C22: the debit of a transfer whose balance check passed and whose sender's
\* balance a concurrent transfer has lowered below the amount in between
\* throws 'Insufficient balance' and ends the attempt at once: no balance
\* changes, no record is written and the debit is not tried again.
C22_LostRaceRejected ==
  [][\A c \in Calls :
       (OvertakenDebit(c) /\ pc'[c] # pc[c]) =>
         /\ ThrowsInsufficient(c)
         /\ users' = users /\ ledger' = ledger
    ]_vars

\* ------------------------------------------------------------ no lost update

\* the delta that the step call c takes applies to the stored balance of
\* account id: a conditional adjustment that succeeds outside a session takes
\* effect at once, the two of a transaction take effect when it commits
AppliedDelta(c, id) ==
  IF ~IsTransfer(c) THEN 0
  ELSE IF loc[c].mode = "atomic"
    THEN IF pc[c] = "debit" /\ pc'[c] = "credit" /\ id = Sender(c)
           THEN -(loc[c].amt.v)
         ELSE IF pc[c] = "credit" /\ pc'[c] = "save" /\ id = Recipient(c)
           THEN loc[c].amt.v
         ELSE 0
  ELSE IF pc[c] = "commit" /\ pc'[c] = "rereadFrom"
    THEN (IF id = Sender(c) THEN -(loc[c].amt.v) ELSE 0)
         + (IF id = Recipient(c) THEN loc[c].amt.v ELSE 0)
  ELSE 0

\* C23: no update of a balance is lost: every step leaves each account's
\* stored balance at what it was just before the step plus the deltas of the
\* conditional adjustments the step applies to it, so a balance is always its
\* initial value plus the deltas applied so far and never a value computed
\* from an earlier read.
C23_NoLostUpdate ==
  [][\A id \in DOMAIN users :
       \/ /\ users'[id].balance = users[id].balance
          /\ \A c \in Calls : AppliedDelta(c, id) = 0
       \/ \E c \in Calls :
            /\ AppliedDelta(c, id) # 0
            /\ users'[id].balance = users[id].balance + AppliedDelta(c, id)
            /\ \A d \in Calls \ {c} : AppliedDelta(d, id) = 0
    ]_vars

\* two transfers in opposite directions between the same two accounts are in
\* flight in fallback mode, the first has debited and credited, the second
\* has debited, and both accounts hold what the three adjustments add up to
C23_Witness ==
  /\ ~supportsTransactions
  /\ pc["c1"] = "save" /\ pc["c2"] = "credit"
  /\ Sender("c1") = Recipient("c2") /\ Recipient("c1") = Sender("c2")
  /\ users[Sender("c1")].balance = opening[Sender("c1")] - loc["c1"].amt.v
  /\ users[Sender("c2")].balance =
       opening[Sender("c2")] + loc["c1"].amt.v - loc["c2"].amt.v
  /\ loc["c1"].amt.v > 0 /\ loc["c2"].amt.v > 0

\* ------------------------------------------------------------ updateBalance

\* call c is at an updateBalance call with a delta that is a number other
\* than zero
AtAdjustment(c) ==
  /\ pc[c] \in {"debit", "credit"}
  /\ ~loc[c].amt.nan /\ loc[c].amt.v > 0

\* the account and the delta of the updateBalance call that call c is at
AdjustedId(c) == IF pc[c] = "debit" THEN Sender(c) ELSE Recipient(c)
AdjustedDelta(c) ==
  IF pc[c] = "debit" THEN -(loc[c].amt.v) ELSE loc[c].amt.v

\* the updateBalance call that call c is at returns the updated document
AdjustmentApplies(c) ==
  \/ pc[c] = "debit" /\ pc'[c] = "credit"
  \/ pc[c] = "credit" /\ pc'[c] = "save"

\* the balance of account id that the reads of call c see after the step
BalanceAfter(c, id) ==
  IF txn'[c].open /\ txn'[c].hasSnap
    THEN IF id \in DOMAIN txn'[c].writes
           THEN txn'[c].writes[id]
           ELSE txn'[c].snap[id].balance
    ELSE users'[id].balance

\* C24: an updateBalance(id, delta) call applies balance += delta exactly
\* when the account exists and the balance that results is not below zero; a
\* debit that would take the balance below zero throws 'Insufficient balance'
\* and leaves the balance as it was; a credit on an account that exists
\* always succeeds.
C24_UpdateBalance ==
  [][\A c \in Calls :
       (AtAdjustment(c) /\ pc'[c] # pc[c]) =>
         LET id == AdjustedId(c)
             exists == id \in DOMAIN View(c)
             balance == View(c)[id].balance
             fits == exists /\ balance + AdjustedDelta(c) >= 0
         IN /\ AdjustmentApplies(c) <=> fits
            /\ AdjustmentApplies(c) =>
                 BalanceAfter(c, id) = balance + AdjustedDelta(c)
            /\ (exists /\ ~fits) =>
                 /\ ThrowsInsufficient(c)
                 /\ BalanceAfter(c, id) = balance
    ]_vars

\* ------------------------------------------------------------ vanished accounts

\* await User.deleteMany({}): a client of the store other than the service
\* removes every account document. The service itself never deletes one. The
\* removal waits for the open transactions that have written an account, and
\* makes the snapshot of every other open transaction stale.
DeleteManyUsers ==
  /\ DOMAIN users # {}
  /\ \A d \in Calls : DOMAIN txn[d].writes = {}
  /\ users' = [id \in {} |-> NoUser]
  /\ txn' = [d \in Calls |->
               IF txn[d].open /\ txn[d].hasSnap
                 THEN [txn[d] EXCEPT !.dirty = @ \cup DOMAIN users]
                 ELSE txn[d]]
  /\ UNCHANGED <<topology, ledger, pc, args, loc, result, opening, response>>
  /\ UNCHANGED session

\* await Transaction.deleteMany({}), which follows User.deleteMany({})
DeleteManyTransactions ==
  /\ DOMAIN users = {}
  /\ ledger # << >>
  /\ \A d \in Calls : ~txn[d].rec
  /\ ledger' = << >>
  /\ UNCHANGED <<topology, users, pc, args, loc, txn, result, opening,
                 response>>
  /\ UNCHANGED session

\* the amounts of the transfers that run while accounts are removed
VanishAmounts == {Num(10 * k - 4) : k \in 1..MaxAmount}

\* transfers on a store whose accounts another client removes
VanishNext ==
  \/ \E c \in Calls :
       \/ \E ft \in TransferInputs, m \in VanishAmounts :
            TransferMoney(c, ft[1], ft[2], m, 0)
       \/ FindFrom(c)
       \/ FindTo(c)
       \/ Debit(c)
       \/ Credit(c)
       \/ SaveTransaction(c)
       \/ CommitTransaction(c)
       \/ RereadFrom(c)
       \/ RereadTo(c)
       \/ AbortTransaction(c)
  \/ DeleteManyUsers
  \/ DeleteManyTransactions

SpecVanish == Init /\ [][VanishNext]_vars

\* the id of the updateBalance call that call c is at resolves to no account
AdjustsNoAccount(c) ==
  /\ AtAdjustment(c)
  /\ AdjustedId(c) \notin DOMAIN users

\* the step taken by call c throws an error that says an account was not found
ThrowsNotFound(c) ==
  \/ pc'[c] = "done" /\ includesNotFound(result'[c])
  \/ pc'[c] = "abort" /\ includesNotFound(loc'[c].err)

\* C25: an updateBalance call on an id that resolves to no account throws a
\* not-found error, which is not 'Insufficient balance': a debit or a credit
\* whose account was removed after the existence check ends the transfer with
\* an error that says the account was not found, and changes nothing.
C25_VanishedAccount ==
  [][\A c \in Calls :
       (AdjustsNoAccount(c) /\ pc'[c] # pc[c]) =>
         /\ ThrowsNotFound(c)
         /\ ~ThrowsInsufficient(c)
         /\ users' = users /\ ledger' = ledger
    ]_vars

\* ------------------------------------------------------------ pairs and records

\* call c runs in fallback mode and has applied its debit and its credit of
\* an amount above zero, and has not yet written its record
PairApplied(c) ==
  /\ loc[c].mode = "atomic"
  /\ pc[c] = "save"
  /\ ~loc[c].amt.nan /\ loc[c].amt.v > 0

\* C26: on a store that never fails, a transfer in fallback mode that has
\* applied its debit and its credit writes its record in its next step: no
\* pair of adjustments is left without a record.
C26_PairHasRecord ==
  [][\A c \in Calls :
       (PairApplied(c) /\ pc'[c] # pc[c]) =>
         /\ ledger' = Append(ledger, NewTransaction(c))
         /\ pc'[c] = "rereadFrom"
    ]_vars

\* ------------------------------------------------------------ reported failures

\* the transferMoney call c has returned a failure to its caller
ReportedFailure(c) ==
  /\ IsTransfer(c)
  /\ pc[c] = "done"
  /\ result[c] # "ok"

\* C27: a transferMoney call that reports a failure has left no durable
\* effect: having run alone, it leaves every balance as it was before the
\* call and the ledger without a record of it, also when the failure is
\* raised after the commit point, while the accounts are read again.
C27_FailureLeavesNothing ==
  \A c \in Calls :
    (ReportedFailure(c) /\ RanAlone(c)) =>
      /\ \A id \in DOMAIN users : users[id].balance = opening[id]
      /\ ~HasRecord(c)

\* ------------------------------------------------------------ order of the checks

\* the transferMoney call c has returned and both its identifiers are
\* well-formed
WellFormedDone(c) ==
  /\ IsTransfer(c)
  /\ pc[c] = "done"
  /\ isValid(args[c].from) /\ isValid(args[c].to)

\* C28: of the rules a transfer request with well-formed identifiers breaks,
\* the missing account is reported first, then the transfer to oneself, then
\* the amount: a call naming an account that does not exist fails with a
\* not-found error, also when sender and recipient are the same identifier or
\* the amount is not above zero; a call between existing accounts with the
\* same identifier on both sides fails as a self-transfer whatever the
\* amount; and only then is an amount not above zero reported.
C28_ValidationOrder ==
  \A c \in Calls :
    WellFormedDone(c) =>
      IF Sender(c) \notin DOMAIN users \/ Recipient(c) \notin DOMAIN users
        THEN result[c] \in {ErrNoSender, ErrNoRecipient}
      ELSE IF args[c].from = args[c].to
        THEN result[c] = ErrSelf
      ELSE LeqZero(args[c].amount) => result[c] = ErrAmount

\* ------------------------------------------------------------ append-only ledger

\* C29: the ledger is append-only: every step leaves each record that exists
\* where and as it was, so records are never changed or removed and the set
\* of records only grows.
C29_LedgerAppendOnly ==
  [][/\ Len(ledger') >= Len(ledger)
     /\ \A i \in DOMAIN ledger : ledger'[i] = ledger[i]
    ]_vars

\* a record of an earlier transfer is still in place below a record that a
\* call has written since, and another call has read the history of an
\* account and got both
C29_Witness ==
  \E i, j \in DOMAIN ledger, c \in Calls :
    /\ i < j
    /\ ledger[i].id \notin Calls
    /\ ledger[j].id \in Calls \ {c}
    /\ args[c].op = "history" /\ pc[c] = "done" /\ result[c] = "ok"
    /\ Len(response[c].records) >= 2

\* ------------------------------------------------------------ records of failures

\* the transferMoney calls that have returned success
SuccessfulTransfers == {c \in Calls : IsTransfer(c) /\ result[c] = "ok"}

\* C30: every record of the ledger has status SUCCESS, a transferMoney call
\* that has reported a failure has no record in the ledger, and once every
\* call has returned the ledger holds no more records than there are
\* transferMoney calls that returned success.
C30_OnlySuccessRecords ==
  /\ \A i \in DOMAIN ledger : ledger[i].status = "SUCCESS"
  /\ \A c \in Calls : ReportedFailure(c) => ~HasRecord(c)
  /\ Quiescent => Len(ledger) <= Cardinality(SuccessfulTransfers)

\* ------------------------------------------------------------ choice of mode

\* the driver's monitoring replaces the topology description of the client
\* while the process runs; client.topology.description.type is read from it
TopologyChange ==
  /\ \E t \in Topologies \ {topology} : topology' = t
  /\ UNCHANGED <<users, ledger, pc, args, loc, txn, result, opening, response>>
  /\ UNCHANGED session

\* transfers of one process run whose store reports a changing topology
TopologyNext ==
  \/ \E c \in Calls :
       \/ \E ft \in TransferInputs, m \in VanishAmounts :
            TransferMoney(c, ft[1], ft[2], m, 0)
       \/ FindFrom(c)
       \/ FindTo(c)
       \/ Debit(c)
       \/ Credit(c)
       \/ SaveTransaction(c)
       \/ CommitTransaction(c)
       \/ RereadFrom(c)
       \/ RereadTo(c)
       \/ AbortTransaction(c)
  \/ TopologyChange

SpecTopology == Init /\ [][TopologyNext]_vars

\* the transferMoney call c is running in the mode it was given
InMode(c) == IsTransfer(c) /\ loc[c].mode # "none"

\* C31: the mode is chosen once for the process and not per call: any two
\* transferMoney calls of one run that are under way run in the same mode,
\* also when the topology the store reports has changed between them.
C31_OneModePerRun ==
  \A c, d \in Calls :
    (InMode(c) /\ InMode(d)) => loc[c].mode = loc[d].mode

\* ------------------------------------------------------------ every operation

\* the parties of the transfers, the addresses and opening balances of the
\* accounts created, and the accounts read while every operation is in use
ServicePairs == {<<"a", "b">>, <<"b", "a">>, <<"a", "c">>}
ServiceEmails == {"n@x", "a@x"}
ServiceBalances == {Null, Num(10)}
ServiceIds == {"a", "c"}

\* every operation of the service on a store that never fails
ServiceNext ==
  \E c \in Calls :
    \/ \E ft \in ServicePairs, m \in VanishAmounts :
         TransferMoney(c, ft[1], ft[2], m, 0)
    \/ FindFrom(c)
    \/ FindTo(c)
    \/ Debit(c)
    \/ Credit(c)
    \/ SaveTransaction(c)
    \/ CommitTransaction(c)
    \/ RereadFrom(c)
    \/ RereadTo(c)
    \/ AbortTransaction(c)
    \/ \E e \in ServiceEmails, b \in ServiceBalances : CreateAccount(c, e, b)
    \/ FindOne(c)
    \/ SaveUser(c)
    \/ \E id \in ServiceIds : GetBalance(c, id)
    \/ FindUser(c)
    \/ \E id \in ServiceIds : GetTransactionHistory(c, id, << >>)
    \/ FindRecords(c)
    \/ GetAllUsers(c)
    \/ FindUsers(c)

SpecService == Init /\ [][ServiceNext]_vars

\* the getAllUsers call c has returned the accounts it read
ReadAllUsers(c) ==
  /\ args[c].op = "users"
  /\ pc[c] = "done" /\ result[c] = "ok"

\* C32: a reader never sees half a transfer: the balances that one
\* getAllUsers call returns, read while transfers run, add up to what the
\* accounts it returns were opened with, so it never sees a sender debited
\* whose recipient is not yet credited.
C32_ReaderSeesWholeTransfers ==
  \A c \in Calls :
    ReadAllUsers(c) =>
      SumBalances(response[c].users, DOMAIN response[c].users)
        = SumOpening(DOMAIN response[c].users)

\* ------------------------------------------------------------ the error surfaced

\* the failures of transferMoney that are outcomes of its input and of the
\* state of the accounts
BusinessErrors ==
  {ErrBadSender, ErrBadRecipient, ErrSelf, ErrAmount, ErrNoSender,
   ErrNoRecipient, ErrInsufficient}

\* call c is in the catch block of _transferWithTransaction with a
\* business-rule failure
CaughtBusinessError(c) ==
  /\ IsTransfer(c)
  /\ pc[c] = "abort"
  /\ loc[c].err \in BusinessErrors

\* AbortFailure with a driver that hands the failure of the abort command to
\* the caller in place of the error caught
AbortFailure_throws(c) ==
  /\ pc[c] = "abort"
  /\ ~loc[c].committed
  /\ result' = [result EXCEPT ![c] = ErrInfra]
  /\ pc' = [pc EXCEPT ![c] = "done"]
  /\ loc' = [loc EXCEPT ![c] = NoLoc]
  /\ UNCHANGED <<topology, users, ledger, args, txn, opening, response>>
  /\ session' = [session EXCEPT ![c] = IF @ = "active" THEN "ended" ELSE @]

\* await session.abortTransaction() when the abortTransaction command fails
\* for a reason of the infrastructure: the driver ignores the failure of the
\* command, so the catch block goes on to throw the error it caught; the
\* transaction stays open on the server with what it has written
AbortFailure(c) ==
  /\ pc[c] = "abort"
  /\ ~loc[c].committed
  /\ result' = [result EXCEPT ![c] = loc[c].err]
  /\ pc' = [pc EXCEPT ![c] = "done"]
  /\ loc' = [loc EXCEPT ![c] = NoLoc]
  /\ UNCHANGED <<topology, users, ledger, args, txn, opening, response>>
  /\ session' = [session EXCEPT ![c] = IF @ = "active" THEN "ended" ELSE @]

\* the server aborts a transaction whose session has gone without a commit
\* or an abort reaching it: its writes are dropped
TransactionExpires(c) ==
  /\ pc[c] = "done"
  /\ txn[c].open
  /\ txn' = [txn EXCEPT ![c] = NoTxn]
  /\ UNCHANGED <<topology, users, ledger, pc, args, loc, result, opening,
                 response>>
  /\ UNCHANGED session

\* transfers on a store whose calls can fail, the abort included
AbortNext ==
  \E c \in Calls :
    \/ \E ft \in TransferInputs, m \in AmountInputs :
         TransferMoney(c, ft[1], ft[2], m, 0)
    \/ FindFrom(c)
    \/ FindTo(c)
    \/ Debit(c)
    \/ Credit(c)
    \/ SaveTransaction(c)
    \/ CommitTransaction(c)
    \/ RereadFrom(c)
    \/ RereadTo(c)
    \/ AbortTransaction(c)
    \/ StoreFailure(c)
    \/ AbortFailure(c)
    \/ TransactionExpires(c)

SpecAbort == Init /\ [][AbortNext]_vars

\* C33: a business-rule failure caught in transactional mode reaches the
\* caller unchanged: the abort in the catch block is made on a transaction
\* that was not committed, so it does not throw, also when the abort command
\* fails, and the step out of the catch block ends the call with the very
\* error that was caught.
C33_ErrorUnchanged ==
  [][\A c \in Calls :
       (CaughtBusinessError(c) /\ pc'[c] # pc[c]) =>
         /\ ~loc[c].committed
         /\ pc'[c] = "done"
         /\ result'[c] = loc[c].err
    ]_vars

\* a transfer has ended with 'Insufficient balance' out of a catch block
\* whose abort failed: its transaction is still open on the server
C33_Witness ==
  \E c \in Calls :
    /\ IsTransfer(c) /\ pc[c] = "done"
    /\ txn[c].open
    /\ result[c] = ErrInsufficient

\* ------------------------------------------------------------ termination

\* a store call of transferMoney call c completes or fails
Progress(c) ==
  \/ FindFrom(c)
  \/ FindTo(c)
  \/ Debit(c)
  \/ Credit(c)
  \/ SaveTransaction(c)
  \/ CommitTransaction(c)
  \/ RereadFrom(c)
  \/ RereadTo(c)
  \/ AbortTransaction(c)
  \/ StoreFailure(c)
  \/ AbortFailure(c)

\* transfers of amounts above zero on a store whose calls can fail, the
\* abort included
LiveNext ==
  \E c \in Calls :
    \/ \E ft \in TransferInputs, m \in VanishAmounts :
         TransferMoney(c, ft[1], ft[2], m, 0)
    \/ Progress(c)
    \/ TransactionExpires(c)

\* the same, with every store call completing or failing in the end
SpecLive ==
  /\ Init
  /\ [][LiveNext]_vars
  /\ \A c \in Calls : WF_vars(Progress(c))

\* the transferMoney call c is under way
Running(c) == IsTransfer(c) /\ pc[c] # "done"

\* the transferMoney call c has returned a result or thrown an error, and the
\* session it started, if any, is ended
Finished(c) ==
  /\ pc[c] = "done"
  /\ result[c] # "none"
  /\ session[c] # "active"

\* C34: every transferMoney call finishes with a result or an error when each
\* of its store calls completes or fails in the end, and the session a call
\* started is ended on every path: no call has returned with its session
\* still active, and every call in transactional mode has one until then.
C34_TerminatesAndEndsSession ==
  /\ \A c \in Calls : Running(c) ~> Finished(c)
  /\ [](\A c \in Calls :
          /\ pc[c] = "done" => session[c] # "active"
          /\ (Running(c) /\ loc[c].mode = "txn") => session[c] = "active")

\* a transfer in transactional mode has returned an error after its commit,
\* out of a catch block whose abort threw, and its session is ended
C34_Witness ==
  \E c \in Calls :
    /\ IsTransfer(c) /\ pc[c] = "done"
    /\ result[c] = ErrAbortAfterCommit
    /\ session[c] = "ended"
    /\ HasRecord(c)

\* ------------------------------------------------------------ balances and ledger

\* C35: on a store that never fails, whenever no call is under way the
\* balances agree with the ledger: every account holds what it was opened
\* with, plus the amounts of the records that name it as recipient, less the
\* amounts of the records that name it as sender.
C35_BalancesAgreeWithLedger ==
  Quiescent =>
    \A id \in DOMAIN users :
      users[id].balance = opening[id] + Credits(id) - Debits(id)

\* ------------------------------------------------------------ frame of the others

\* the step is one of call c, and c is a createAccount, getBalance,
\* getTransactionHistory or getAllUsers call
OtherOperationStep(c) ==
  /\ pc'[c] # pc[c]
  /\ args'[c].op \in {"create", "balance", "history", "users"}

\* C36: balances change only through transfers and accounts are never
\* removed: a step of createAccount, getBalance, getTransactionHistory or
\* getAllUsers leaves the balance of every account that exists and the whole
\* ledger as they were, every step keeps every account, and the sender and
\* the recipient of every record are accounts that exist.
C36_OnlyTransfersMoveMoney ==
  /\ [](\A i \in DOMAIN ledger :
          /\ ledger[i].fromUserId \in DOMAIN users
          /\ ledger[i].toUserId \in DOMAIN users)
  /\ [][/\ DOMAIN users \subseteq DOMAIN users'
        /\ \A c \in Calls :
             OtherOperationStep(c) =>
               /\ \A id \in DOMAIN users :
                    users'[id].balance = users[id].balance
               /\ ledger' = ledger
       ]_vars

\* an account has been created beside the two of the start, and a transfer
\* has been recorded
C36_Witness ==
  \E c \in Calls :
    /\ IsCreate(c) /\ pc[c] = "done" /\ result[c] = "ok"
    /\ DOMAIN users # InitialUsers
    /\ ledger # << >>

\* ------------------------------------------------------------ disjoint pairs

\* four accounts, and for each call the pair of them it transfers between
DisjointUsers == {"a", "b", "c", "d"}
DisjointInputs(c) ==
  IF c = "c1" THEN {<<"a", "b">>, <<"b", "a">>}
              ELSE {<<"c", "d">>, <<"d", "c">>}

\* the four accounts with any balances up to MaxBalance
DisjointInit ==
  /\ topology \in Topologies
  /\ \E bal \in [DisjointUsers -> 0..MaxBalance] :
       users = [id \in DisjointUsers |->
                  [email |-> IF id = "a" THEN "a@x"
                             ELSE IF id = "b" THEN "b@x"
                             ELSE IF id = "c" THEN "n@x" ELSE "d@x",
                   balance |-> bal[id]]]
  /\ opening = [id \in DOMAIN users |-> users[id].balance]
  /\ ledger = << >>
  /\ pc = [c \in Calls |-> "idle"]
  /\ args = [c \in Calls |-> NoArgs]
  /\ loc = [c \in Calls |-> NoLoc]
  /\ txn = [c \in Calls |-> NoTxn]
  /\ result = [c \in Calls |-> "none"]
  /\ response = [c \in Calls |-> NoResponse]
  /\ session = [c \in Calls |-> "none"]

\* two transfers over disjoint pairs of accounts on a store that never fails
DisjointNext ==
  \E c \in Calls :
    \/ \E ft \in DisjointInputs(c), m \in AmountInputs,
          d \in DescriptionInputs :
         TransferMoney(c, ft[1], ft[2], m, d)
    \/ FindFrom(c)
    \/ FindTo(c)
    \/ Debit(c)
    \/ Credit(c)
    \/ SaveTransaction(c)
    \/ CommitTransaction(c)
    \/ RereadFrom(c)
    \/ RereadTo(c)
    \/ AbortTransaction(c)

SpecDisjoint == DisjointInit /\ [][DisjointNext]_vars

\* what call c, then call d, run one after the other from the opening
\* balances, return and leave
OneAfterTheOther(c, d) ==
  LET first == sequentialTransfer(c, OpeningUsers, << >>, args[c], ThisMode)
      second == sequentialTransfer(d, first.users, first.ledger, args[d],
                                   ThisMode)
  IN [results |-> (c :> first.result) @@ (d :> second.result),
      users |-> second.users,
      records |-> {second.ledger[i] : i \in DOMAIN second.ledger}]

\* what the two calls have returned and left
Together ==
  [results |-> [c \in Calls |-> result[c]],
   users |-> users,
   records |-> {ledger[i] : i \in DOMAIN ledger}]

\* C37: two transfers over disjoint pairs of accounts do not interfere:
\* however their steps interleave, once both have returned each has the
\* outcome, and the balances and the records of the ledger are the ones, of
\* the two run one after the other, in either order.
C37_DisjointTransfersCommute ==
  (\A c \in Calls : IsTransfer(c) /\ pc[c] = "done") =>
    /\ Together = OneAfterTheOther("c1", "c2")
    /\ Together = OneAfterTheOther("c2", "c1")

\* both transfers have succeeded, and the one that started second wrote its
\* record first
C37_Witness ==
  /\ \A c \in Calls : IsTransfer(c) /\ pc[c] = "done" /\ result[c] = "ok"
  /\ Len(ledger) = 2
  /\ ledger[1].id = "c2"

====
